---- MODULE Spec2Model ----
(***************************************************************************)
(* Model of the forecast API: the two weather routes                       *)
(* (api/routes/weather.py), the regeneration trigger with its background   *)
(* thread, and the store accessor the routes consult (core.database).      *)
(*                                                                         *)
(* Spec      : get_latest_forecast requests, trigger_forecast_preparation  *)
(*             and the make_api_calls threads it starts.                   *)
(* SpecHist  : get_forecast_history requests.                              *)
(***************************************************************************)
EXTENDS Integers, Sequences, FiniteSets

VARIABLES
  WEATHER_AGENT_URL,  \* settings.WEATHER_AGENT_URL ("" when not configured)
  req,                \* get_latest_forecast requests, by request number
  threads,            \* the threading.Thread objects started by the trigger
  hist,               \* the get_forecast_history request
  policy,             \* the inputs of one freshness decision and its class
  settings,           \* which of the Cloud SQL settings are set
  connector,          \* core.connection._connector (0 is None)
  instances,          \* the Connector objects created so far
  conns,              \* the pg8000 connections opened so far
  last,               \* the last finished call into core.connection
  callers             \* concurrent get_connector calls, by caller

storevars == <<policy>>
connvars == <<settings, connector, instances, conns, last, callers>>

vars == <<WEATHER_AGENT_URL, req, threads, hist, storevars, connvars>>

----------------------------------------------------------------------------
(* Bounds and input sets *)

MaxReq == 2        \* get_latest_forecast requests in one behaviour
MaxNow == 2        \* the clock readings a store read can see are 0..MaxNow
MaxLimit == 2      \* history limits are 1..MaxLimit (the route allows 1..100)
MaxLiveReq == 1    \* requests in one behaviour of the liveness specification
MaxTtl == 2        \* the time-to-live values tried are 0..MaxTtl
MaxCallers == 3    \* threads calling get_connector at the same time
MaxInst == 2       \* Connector objects created in one behaviour
MaxConns == 2      \* connections opened in one behaviour

None == "None"

Cities == {<<"P", "a">>, <<"p", "a">>}
Languages == {None, "en"}
AgentUrls == {None, "", "http://agent"}

\* What a blocking httpx call can end with.
CallOutcomes == {"2xx", "non_2xx", "timeout", "connect_error", "protocol_error"}

\* Exceptions the store accessor can let escape that are neither
\* ForecastNotFoundError nor DatabaseConnectionError.
UnexpectedKinds == {"KeyError", "TypeError"}

----------------------------------------------------------------------------
(* Python helpers *)

\* bool(x) for an Optional[str]
Truthy(x) == x # None /\ x # ""

LowerChar(c) ==
  CASE c = "P" -> "p"
    [] c = "T" -> "t"
    [] OTHER -> c

\* str.lower()
lower(s) == [i \in DOMAIN s |-> LowerChar(s[i])]

----------------------------------------------------------------------------
(* Store accessor (core.database) *)

TTL == 1

\* The newest stored row for a (city, language), or no row at all.
NoRow ==
  [forecast_at |-> -1, forecast_text |-> None, audio_data |-> None,
   encoding |-> None, language |-> None, locale |-> None, sizes |-> None]
Rows ==
  {NoRow,
   [forecast_at |-> 0, forecast_text |-> "text@0", audio_data |-> "audio@0",
    encoding |-> "mp3", language |-> "en", locale |-> "en-US",
    sizes |-> "sizes@0"]}

NoResult ==
  [status |-> None, cached |-> FALSE, message |-> None, forecast_text |-> None,
   audio_data |-> None, forecast_at |-> -1, expires_at |-> -1,
   age_seconds |-> -1, encoding |-> None, language |-> None, locale |-> None,
   sizes |-> None]

\* Freshness Policy: classify(forecast_at, now, ttl).
classify(forecast_at, now, ttl) ==
  IF now - forecast_at <= ttl THEN "Fresh" ELSE "Expired"

\* The fields derived per read: expires_at, age_seconds, expired.
Derived(forecast_at, now, ttl) ==
  [expires_at |-> forecast_at + ttl,
   age_seconds |-> now - forecast_at,
   expired |-> now > forecast_at + ttl]

\* get_latest of the store accessor under a time-to-live of ttl: the result
\* dict for the newest row read at time now, servable when the policy
\* classifies the row Fresh; or an error dict when the store cannot be reached.
get_latest(row, now, ttl, reachable) ==
  IF ~reachable
    THEN [NoResult EXCEPT !.status = "error", !.message = "connection failed"]
  ELSE IF row = NoRow
    THEN [NoResult EXCEPT !.status = "success"]
  ELSE IF classify(row.forecast_at, now, ttl) = "Expired"
    THEN [NoResult EXCEPT !.status = "success"]
  ELSE [status |-> "success", cached |-> TRUE, message |-> None,
        forecast_text |-> row.forecast_text,
        audio_data |-> row.audio_data,
        forecast_at |-> row.forecast_at,
        expires_at |-> Derived(row.forecast_at, now, ttl).expires_at,
        age_seconds |-> Derived(row.forecast_at, now, ttl).age_seconds,
        encoding |-> row.encoding, language |-> row.language,
        locale |-> row.locale, sizes |-> row.sizes]

\* get_cached_forecast: the result dict for the newest row read at time now,
\* or an error dict when the store cannot be reached.
get_cached_forecast(row, now, reachable) ==
  IF ~reachable
    THEN [NoResult EXCEPT !.status = "error", !.message = "connection failed"]
  ELSE IF row = NoRow
    THEN [NoResult EXCEPT !.status = "success"]
  ELSE LET expires_at == row.forecast_at + TTL
           expired == now > expires_at
       IN IF expired
            THEN [NoResult EXCEPT !.status = "success"]
            ELSE [status |-> "success", cached |-> TRUE, message |-> None,
                  forecast_text |-> row.forecast_text,
                  audio_data |-> row.audio_data,
                  forecast_at |-> row.forecast_at,
                  expires_at |-> expires_at,
                  age_seconds |-> now - row.forecast_at,
                  encoding |-> row.encoding, language |-> row.language,
                  locale |-> row.locale, sizes |-> row.sizes]

\* The stored forecast_at values of a city, newest first.
RECURSIVE NewestFirst(_)
NewestFirst(S) ==
  IF S = {} THEN <<>>
  ELSE LET newest == CHOOSE x \in S : \A y \in S : y <= x
       IN <<newest>> \o NewestFirst(S \ {newest})

\* list_forecasts: at most limit rows of the table, newest first, each with
\* its expired flag computed at time now; or an error dict.
list_forecasts(table, now, limit, reachable) ==
  IF ~reachable
    THEN [status |-> "error", message |-> "connection failed", forecasts |-> <<>>]
  ELSE LET all == NewestFirst(table)
           n == IF Len(all) < limit THEN Len(all) ELSE limit
       IN [status |-> "success", message |-> None,
           forecasts |-> [i \in 1..n |->
                            [forecast_at |-> all[i],
                             expired |-> now > all[i] + TTL]]]

----------------------------------------------------------------------------
(* trigger_forecast_preparation and its background thread *)

\* f"forecast_api_{city}_{language or 'default'}"
SessionIdNoDefault(city, language) ==
  <<"forecast_api_">> \o city \o <<"_", language>>

session_id(city, language) ==
  <<"forecast_api_">> \o city \o <<"_", IF Truthy(language) THEN language ELSE "default">>

\* f"What is the current weather condition in {city}{language_spec}"
prompt(city, language) ==
  <<"What is the current weather condition in ">> \o city
    \o (IF Truthy(language) THEN <<" in ", language>> ELSE <<>>)

\* The sessionId and the text of the message payload built from the local
\* session_id and prompt of one make_api_calls run.
message_payload(sid, text) ==
  [sessionId |-> sid, text |-> text]

NoPayload == [sessionId |-> <<>>, text |-> <<>>]

\* threading.Thread(target=make_api_calls, daemon=True) after start(): the
\* closure holds city and language; nobody joins the thread.
NewThreadJoined(owner, city, language) ==
  [owner |-> owner, city |-> city, language |-> language, pc |-> "started",
   session_sid |-> <<>>, message |-> NoPayload, sessions |-> 0, messages |-> 0,
   session_status |-> None, log |-> {}, joined_by |-> owner]

NewThread(owner, city, language) ==
  [owner |-> owner, city |-> city, language |-> language, pc |-> "started",
   session_sid |-> <<>>, message |-> NoPayload, sessions |-> 0, messages |-> 0,
   session_status |-> None, log |-> {}, joined_by |-> 0]

\* The call of request `caller`: what it leaves in threads, what it logs and
\* what it raises to the caller. start_ok is whether thread.start() succeeds.
TriggerNoUrlCheck(caller, city, language, url, ths, start_ok) ==
  IF start_ok
    THEN [threads |-> Append(ths, NewThread(caller, city, language)),
          log |-> {}, raised |-> None]
    ELSE [threads |-> ths, log |-> {"Failed to start forecast preparation"},
          raised |-> None]

TriggerNoCatch(caller, city, language, url, ths, start_ok) ==
  IF ~Truthy(url)
    THEN [threads |-> ths, log |-> {"WEATHER_AGENT_URL not configured"},
          raised |-> None]
  ELSE IF start_ok
    THEN [threads |-> Append(ths, NewThread(caller, city, language)),
          log |-> {}, raised |-> None]
    ELSE [threads |-> ths, log |-> {}, raised |-> "RuntimeError"]

TriggerDeduplicated(caller, city, language, url, ths, start_ok) ==
  IF ~Truthy(url)
    THEN [threads |-> ths, log |-> {"WEATHER_AGENT_URL not configured"},
          raised |-> None]
  ELSE IF \E t \in DOMAIN ths :
            /\ ths[t].city = city /\ ths[t].language = language
            /\ ths[t].pc \in {"started", "session", "message"}
    THEN [threads |-> ths, log |-> {}, raised |-> None]
  ELSE IF start_ok
    THEN [threads |-> Append(ths, NewThread(caller, city, language)),
          log |-> {}, raised |-> None]
    ELSE [threads |-> ths, log |-> {"Failed to start forecast preparation"},
          raised |-> None]

trigger_forecast_preparation(caller, city, language, url, ths, start_ok) ==
  IF ~Truthy(url)
    THEN [threads |-> ths, log |-> {"WEATHER_AGENT_URL not configured"},
          raised |-> None]
  ELSE IF start_ok
    THEN [threads |-> Append(ths, NewThread(caller, city, language)),
          log |-> {}, raised |-> None]
    ELSE [threads |-> ths, log |-> {"Failed to start forecast preparation"},
          raised |-> None]

----------------------------------------------------------------------------
(* get_latest_forecast *)

NoResponse ==
  [status |-> None, city |-> <<>>, text |-> None, audio_base64 |-> None,
   forecast_at |-> -1, expires_at |-> -1, age_seconds |-> -1,
   metadata |-> [encoding |-> None, language |-> None, locale |-> None,
                 sizes |-> None]]

\* The try block: what it returns or raises for a store result.
LatestBodyCachedFirst(city, result) ==
  IF ~result.cached
    THEN [raised |-> "ForecastNotFoundError", value |-> NoResponse]
  ELSE IF result.status = "error"
    THEN [raised |-> "DatabaseConnectionError", value |-> NoResponse]
  ELSE [raised |-> None,
        value |-> [status |-> "success", city |-> lower(city),
                   text |-> result.forecast_text,
                   audio_base64 |-> result.audio_data,
                   forecast_at |-> result.forecast_at,
                   expires_at |-> result.expires_at,
                   age_seconds |-> result.age_seconds,
                   metadata |-> [encoding |-> result.encoding,
                                 language |-> result.language,
                                 locale |-> result.locale,
                                 sizes |-> result.sizes]]]

LatestBodyServeStale(city, result) ==
  IF result.status = "error"
    THEN [raised |-> "DatabaseConnectionError", value |-> NoResponse]
  ELSE [raised |-> None,
        value |-> [status |-> "success", city |-> lower(city),
                   text |-> result.forecast_text,
                   audio_base64 |-> result.audio_data,
                   forecast_at |-> result.forecast_at,
                   expires_at |-> result.expires_at,
                   age_seconds |-> result.age_seconds,
                   metadata |-> [encoding |-> result.encoding,
                                 language |-> result.language,
                                 locale |-> result.locale,
                                 sizes |-> result.sizes]]]

LatestBodyRawCity(city, result) ==
  IF result.status = "error"
    THEN [raised |-> "DatabaseConnectionError", value |-> NoResponse]
  ELSE IF ~result.cached
    THEN [raised |-> "ForecastNotFoundError", value |-> NoResponse]
  ELSE [raised |-> None,
        value |-> [status |-> "success", city |-> city,
                   text |-> result.forecast_text,
                   audio_base64 |-> result.audio_data,
                   forecast_at |-> result.forecast_at,
                   expires_at |-> result.expires_at,
                   age_seconds |-> result.age_seconds,
                   metadata |-> [encoding |-> result.encoding,
                                 language |-> result.language,
                                 locale |-> result.locale,
                                 sizes |-> result.sizes]]]

LatestBody(city, result) ==
  IF result.status = "error"
    THEN [raised |-> "DatabaseConnectionError", value |-> NoResponse]
  ELSE IF ~result.cached
    THEN [raised |-> "ForecastNotFoundError", value |-> NoResponse]
  ELSE [raised |-> None,
        value |-> [status |-> "success", city |-> lower(city),
                   text |-> result.forecast_text,
                   audio_base64 |-> result.audio_data,
                   forecast_at |-> result.forecast_at,
                   expires_at |-> result.expires_at,
                   age_seconds |-> result.age_seconds,
                   metadata |-> [encoding |-> result.encoding,
                                 language |-> result.language,
                                 locale |-> result.locale,
                                 sizes |-> result.sizes]]]

\* The except clauses: whether the clause that catches exc calls the trigger,
\* and what it raises afterwards.
LatestExceptNoTrigger(exc) ==
  [trigger |-> FALSE, raise |-> exc]

LatestExcept(exc) ==
  IF exc = "ForecastNotFoundError" THEN [trigger |-> TRUE, raise |-> exc]
  ELSE IF exc = "DatabaseConnectionError" THEN [trigger |-> FALSE, raise |-> exc]
  ELSE [trigger |-> FALSE, raise |-> exc]

----------------------------------------------------------------------------
(* get_forecast_history *)

NoHistoryResponse ==
  [status |-> None, city |-> <<>>, count |-> -1, forecasts |-> <<>>]

\* [f for f in forecasts if not f.get("expired", False)]
NotExpired(f) == ~f.expired

\* The try block: what it returns or raises for a store result.
HistoryBodyNoFilter(city, include_expired, result) ==
  IF result.status = "error"
    THEN [raised |-> "DatabaseConnectionError", value |-> NoHistoryResponse]
  ELSE [raised |-> None,
        value |-> [status |-> "success", city |-> lower(city),
                   count |-> Len(result.forecasts),
                   forecasts |-> result.forecasts]]

HistoryBody(city, include_expired, result) ==
  IF result.status = "error"
    THEN [raised |-> "DatabaseConnectionError", value |-> NoHistoryResponse]
  ELSE LET forecasts == IF ~include_expired
                          THEN SelectSeq(result.forecasts, NotExpired)
                          ELSE result.forecasts
       IN [raised |-> None,
           value |-> [status |-> "success", city |-> lower(city),
                      count |-> Len(forecasts), forecasts |-> forecasts]]

\* The except clauses: what the handler raises for an exception of the body.
HistoryExcept(exc) ==
  IF exc = "DatabaseConnectionError" THEN exc
  ELSE "DatabaseConnectionError"

----------------------------------------------------------------------------
(* State *)

Requests == 1..MaxReq

IdleRequest ==
  [pc |-> "idle", city |-> <<>>, language |-> None, store |-> None,
   result |-> NoResult, raised |-> None, exc |-> None, outcome |-> None, response |-> NoResponse,
   triggers |-> 0, trigger_args |-> <<>>, reads |-> 0, log |-> {}]

IdleHistory ==
  [pc |-> "idle", city |-> <<>>, limit |-> 0, include_expired |-> FALSE,
   store |-> None, raised |-> None, listed |-> <<>>, outcome |-> None,
   response |-> NoHistoryResponse, reads |-> 0]

\* No freshness decision taken yet.
IdlePolicy ==
  [pc |-> "idle", forecast_at |-> -1, now |-> -1, ttl |-> -1, class |-> None,
   expired |-> FALSE]

\* GOOGLE_CLOUD_PROJECT, GOOGLE_CLOUD_LOCATION, CLOUD_SQL_INSTANCE and
\* CLOUD_SQL_PASSWORD: TRUE when the setting has a value.
AllSet == [project |-> TRUE, location |-> TRUE, instance |-> TRUE, password |-> TRUE]

Callers == 1..MaxCallers

IdleCaller == [pc |-> "idle", got |-> 0]

NoCall ==
  [op |-> None, raised |-> None, value |-> 0, status |-> None,
   connected |-> FALSE, instance |-> None, conn |-> 0, connects |-> 0,
   failed |-> None]

Init ==
  /\ WEATHER_AGENT_URL \in AgentUrls
  /\ req = [r \in Requests |-> IdleRequest]
  /\ threads = <<>>
  /\ hist = IdleHistory
  /\ policy = IdlePolicy
  /\ settings = AllSet
  /\ connector = 0
  /\ instances = <<>>
  /\ conns = <<>>
  /\ last = NoCall
  /\ callers = [c \in Callers |-> IdleCaller]

----------------------------------------------------------------------------
(* get_latest_forecast, in the steps other activities can interleave with *)

\* Lines 120-145 and the choice of the except clause: the store is read once;
\* the request ends here unless the ForecastNotFoundError clause is entered.
LatestEnterRetryOnError(r, city, language, call) ==
  LET body == IF call.raised # None
                THEN [raised |-> call.raised, value |-> NoResponse]
                ELSE LatestBody(city, call.result)
      clause == LatestExcept(body.raised)
      arrived == [req[r] EXCEPT !.city = city, !.language = language,
                                !.store = call.kind, !.result = call.result,
                                !.raised = call.raised,
                                !.reads = IF call.kind = "error" THEN 2 ELSE 1]
  IN IF body.raised = None
       THEN [arrived EXCEPT !.pc = "done", !.outcome = "success",
                            !.response = body.value]
     ELSE IF clause.trigger
       THEN [arrived EXCEPT !.pc = "except", !.exc = clause.raise,
                            !.log = {"triggering forecast preparation"}]
     ELSE [arrived EXCEPT !.pc = "done", !.outcome = clause.raise,
                          !.log = IF body.raised \in UnexpectedKinds
                                    THEN {"Unexpected error in get_latest_forecast"}
                                    ELSE {}]

LatestEnter(r, city, language, call) ==
  LET body == IF call.raised # None
                THEN [raised |-> call.raised, value |-> NoResponse]
                ELSE LatestBody(city, call.result)
      clause == LatestExcept(body.raised)
      arrived == [req[r] EXCEPT !.city = city, !.language = language,
                                !.store = call.kind, !.result = call.result,
                                !.raised = call.raised,
                                !.reads = 1]
  IN IF body.raised = None
       THEN [arrived EXCEPT !.pc = "done", !.outcome = "success",
                            !.response = body.value]
     ELSE IF clause.trigger
       THEN [arrived EXCEPT !.pc = "except", !.exc = clause.raise,
                            !.log = {"triggering forecast preparation"}]
     ELSE [arrived EXCEPT !.pc = "done", !.outcome = clause.raise,
                          !.log = IF body.raised \in UnexpectedKinds
                                    THEN {"Unexpected error in get_latest_forecast"}
                                    ELSE {}]

\* The outcomes of the one call get_cached_forecast(city, language).
StoreCalls ==
  {[raised |-> None, kind |-> "error",
    result |-> get_cached_forecast(NoRow, 0, FALSE)]}
  \cup {[raised |-> None,
         kind |-> IF row = NoRow THEN "none"
                  ELSE IF get_cached_forecast(row, now, TRUE).cached
                    THEN "fresh" ELSE "expired",
         result |-> get_cached_forecast(row, now, TRUE)]
        : row \in Rows, now \in 0..MaxNow}
  \cup {[raised |-> k, kind |-> "raised", result |-> NoResult]
        : k \in UnexpectedKinds}

\* The handlers are coroutines without an await: the event loop runs one to
\* its end before it starts the next, while the threads run beside it.
get_latest_forecast(r) ==
  /\ req[r].pc = "idle"
  /\ IF r = 1 THEN TRUE ELSE req[r - 1].pc = "done"
  /\ \E city \in Cities, language \in Languages, call \in StoreCalls :
       req' = [req EXCEPT ![r] = LatestEnter(r, city, language, call)]
  /\ UNCHANGED <<WEATHER_AGENT_URL, threads, hist, storevars, connvars>>

\* Line 149: the arguments of trigger_forecast_preparation(city, language).
TriggerArgs(rq) == <<rq.city, rq.language>>

\* Line 149: the call. An exception leaving it would leave the handler too,
\* since no clause of the same try statement catches it.
CallTrigger(r) ==
  /\ req[r].pc = "except"
  /\ \E start_ok \in BOOLEAN :
       LET args == TriggerArgs(req[r])
           t == trigger_forecast_preparation(r, args[1], args[2],
                                             WEATHER_AGENT_URL, threads, start_ok)
       IN /\ threads' = t.threads
          /\ req' = [req EXCEPT ![r] =
                       IF t.raised = None
                         THEN [@ EXCEPT !.pc = "reraise",
                                        !.triggers = @ + 1,
                                        !.trigger_args = args,
                                        !.log = @ \cup t.log]
                         ELSE [@ EXCEPT !.pc = "done",
                                        !.triggers = @ + 1,
                                        !.trigger_args = args,
                                        !.outcome = t.raised]]
  /\ UNCHANGED <<WEATHER_AGENT_URL, hist, storevars, connvars>>

\* Line 152: raise. It waits only for a thread that the handler joined.
Reraise(r) ==
  /\ req[r].pc = "reraise"
  /\ \A t \in DOMAIN threads :
       threads[t].joined_by = r => threads[t].pc \in {"done", "failed"}
  /\ req' = [req EXCEPT ![r] = [@ EXCEPT !.pc = "done", !.outcome = req[r].exc]]
  /\ UNCHANGED <<WEATHER_AGENT_URL, threads, hist, storevars, connvars>>

----------------------------------------------------------------------------
(* make_api_calls, one run per started thread *)

\* Lines 48-64: the thread builds session_id and prompt and posts the
\* session-creation request.
PostSession(t) ==
  /\ threads[t].pc = "started"
  /\ threads' = [threads EXCEPT ![t] =
       [@ EXCEPT !.pc = "session",
                 !.session_sid = session_id(threads[t].city, threads[t].language),
                 !.sessions = @ + 1]]
  /\ UNCHANGED <<WEATHER_AGENT_URL, req, hist, storevars, connvars>>

\* Whether the post that ended with outcome o returned a success status.
StatusOf(o) == IF o = "2xx" THEN "ok" ELSE "failed"

\* What make_api_calls does when a post ends with outcome o in state th.
AfterPostRetry(th, o) ==
  IF o # "2xx"
    THEN [th EXCEPT !.pc = "started", !.sessions = 0, !.messages = 0,
                    !.session_status = None, !.message = NoPayload,
                    !.log = @ \cup {"Failed to trigger forecast"}]
  ELSE IF th.pc = "session"
    THEN [th EXCEPT !.pc = "message",
                    !.session_status = StatusOf(o),
                    !.message = message_payload(th.session_sid,
                                                prompt(th.city, th.language)),
                    !.messages = @ + 1,
                    !.log = @ \cup {"Created session"}]
  ELSE [th EXCEPT !.pc = "done", !.log = @ \cup {"Sent forecast request"}]

AfterPostNoStatusCheck(th, o) ==
  IF o \notin {"2xx", "non_2xx"}
    THEN [th EXCEPT !.pc = "failed",
                    !.session_status = IF th.pc = "session" THEN StatusOf(o) ELSE @,
                    !.log = @ \cup {"Failed to trigger forecast"}]
  ELSE IF th.pc = "session"
    THEN [th EXCEPT !.pc = "message",
                    !.session_status = StatusOf(o),
                    !.message = message_payload(th.session_sid,
                                                prompt(th.city, th.language)),
                    !.messages = @ + 1,
                    !.log = @ \cup {"Created session"}]
  ELSE [th EXCEPT !.pc = "done", !.log = @ \cup {"Sent forecast request"}]

AfterPost(th, o) ==
  IF o # "2xx"
    THEN [th EXCEPT !.pc = "failed",
                    !.session_status = IF th.pc = "session" THEN StatusOf(o) ELSE @,
                    !.log = @ \cup {"Failed to trigger forecast"}]
  ELSE IF th.pc = "session"
    THEN [th EXCEPT !.pc = "message",
                    !.session_status = StatusOf(o),
                    !.message = message_payload(th.session_sid,
                                                prompt(th.city, th.language)),
                    !.messages = @ + 1,
                    !.log = @ \cup {"Created session"}]
  ELSE [th EXCEPT !.pc = "done", !.log = @ \cup {"Sent forecast request"}]

\* Lines 60-88: the session post ends; on success the message is posted.
SessionReturns(t) ==
  /\ threads[t].pc = "session"
  /\ \E o \in CallOutcomes :
       threads' = [threads EXCEPT ![t] = AfterPost(@, o)]
  /\ UNCHANGED <<WEATHER_AGENT_URL, req, hist, storevars, connvars>>

\* Lines 81-93: the message post ends.
MessageReturns(t) ==
  /\ threads[t].pc = "message"
  /\ \E o \in CallOutcomes :
       threads' = [threads EXCEPT ![t] = AfterPost(@, o)]
  /\ UNCHANGED <<WEATHER_AGENT_URL, req, hist, storevars, connvars>>

Next ==
  \/ \E r \in Requests : get_latest_forecast(r)
  \/ \E r \in Requests : CallTrigger(r)
  \/ \E r \in Requests : Reraise(r)
  \/ \E t \in DOMAIN threads : PostSession(t)
  \/ \E t \in DOMAIN threads : SessionReturns(t)
  \/ \E t \in DOMAIN threads : MessageReturns(t)

Spec == Init /\ [][Next]_vars

\* The threads are scheduled by the interpreter and every post of the
\* httpx.Client(timeout=30.0) returns or raises within its timeout; nothing
\* obliges a handler to take its next step.
ThreadIds == 1..MaxReq

ThreadFairness ==
  \A t \in ThreadIds :
    /\ WF_vars(t \in DOMAIN threads /\ PostSession(t))
    /\ WF_vars(t \in DOMAIN threads /\ SessionReturns(t))
    /\ WF_vars(t \in DOMAIN threads /\ MessageReturns(t))

NextLive ==
  \/ \E r \in (1..MaxLiveReq) \cap Requests : get_latest_forecast(r)
  \/ \E r \in Requests : CallTrigger(r)
  \/ \E r \in Requests : Reraise(r)
  \/ \E t \in DOMAIN threads : PostSession(t)
  \/ \E t \in DOMAIN threads : SessionReturns(t)
  \/ \E t \in DOMAIN threads : MessageReturns(t)

SpecLive == Init /\ [][NextLive]_vars /\ ThreadFairness

----------------------------------------------------------------------------
(* Properties of get_latest_forecast and the trigger (Spec) *)

ThreadsOf(r) == {t \in DOMAIN threads : threads[t].owner = r}
Responded(r) == req[r].pc = "done"
Missed(r) == req[r].store \in {"none", "expired"}
Configured == WEATHER_AGENT_URL \notin {None, ""}
InFlight(t) == threads[t].pc \in {"session", "message"}

\* C1: a request whose store lookup returned a result that is not an error
\* and not servable (no row, or the newest row expired) invokes
\* trigger_forecast_preparation exactly once, with its own city and language,
\* and ends with ForecastNotFoundError whatever the trigger and its thread do.
C1_MissTriggersOnceAndIsNotFound ==
  \A r \in Requests :
    Missed(r) =>
      /\ ~req[r].result.cached /\ req[r].result.status # "error"
      /\ req[r].pc \in {"except", "reraise", "done"}
      /\ req[r].triggers = (IF req[r].pc = "except" THEN 0 ELSE 1)
      /\ req[r].pc # "except" =>
           req[r].trigger_args = <<req[r].city, req[r].language>>
      /\ \A t \in ThreadsOf(r) :
           threads[t].city = req[r].city /\ threads[t].language = req[r].language
      /\ Responded(r) => req[r].outcome = "ForecastNotFoundError"

C1_Witness ==
  \E r \in Requests :
    /\ req[r].store = "expired" /\ Responded(r)
    /\ req[r].outcome = "ForecastNotFoundError" /\ req[r].triggers = 1
    /\ \E t \in ThreadsOf(r) : threads[t].pc = "failed"

\* C2: a request whose store lookup reported status "error" ends with
\* DatabaseConnectionError, never with not-found or success, and never
\* invokes the trigger or owns a thread, although its result is not cached.
C2_StoreErrorIsConnectionErrorWithoutTrigger ==
  \A r \in Requests :
    req[r].store = "error" =>
      /\ ~req[r].result.cached
      /\ Responded(r) /\ req[r].outcome = "DatabaseConnectionError"
      /\ req[r].triggers = 0 /\ ThreadsOf(r) = {}

C2_Witness ==
  \E r \in Requests :
    /\ req[r].store = "error" /\ req[r].result.status = "error"
    /\ Responded(r) /\ req[r].outcome = "DatabaseConnectionError"

\* C3: a request whose store lookup returned a fresh (cached) record ends
\* with success, carrying that record's payload and the lower-cased city, and
\* neither invokes the trigger nor starts a thread.
C3_FreshIsServedWithoutTrigger ==
  \A r \in Requests :
    req[r].store = "fresh" =>
      /\ req[r].result.cached
      /\ Responded(r) /\ req[r].outcome = "success"
      /\ req[r].response.status = "success"
      /\ req[r].response.city = lower(req[r].city)
      /\ req[r].response.text = req[r].result.forecast_text
      /\ req[r].response.audio_base64 = req[r].result.audio_data
      /\ req[r].response.metadata =
           [encoding |-> req[r].result.encoding,
            language |-> req[r].result.language,
            locale |-> req[r].result.locale, sizes |-> req[r].result.sizes]
      /\ req[r].response.forecast_at = req[r].result.forecast_at
      /\ req[r].response.expires_at = req[r].result.expires_at
      /\ req[r].response.age_seconds = req[r].result.age_seconds
      /\ req[r].triggers = 0 /\ ThreadsOf(r) = {}

C3_Witness ==
  \E r \in Requests :
    /\ req[r].store = "fresh" /\ Responded(r) /\ req[r].outcome = "success"
    /\ req[r].city = <<"P", "a">> /\ req[r].response.city = <<"p", "a">>
    /\ req[r].response.text = "text@0" /\ req[r].response.age_seconds = TTL

\* C4: trigger_forecast_preparation returns normally whatever happens: a
\* failed thread start is logged by the trigger, a failed outbound call is
\* logged by the thread, and the request that called the trigger still ends
\* with ForecastNotFoundError.
C4_TriggerNeverRaises ==
  /\ \A r \in Requests :
       req[r].triggers > 0 =>
         /\ req[r].pc \in {"reraise", "done"}
         /\ Responded(r) => req[r].outcome = "ForecastNotFoundError"
         /\ (Configured /\ ThreadsOf(r) = {}) =>
              "Failed to start forecast preparation" \in req[r].log
  /\ \A t \in DOMAIN threads :
       /\ threads[t].pc = "failed" => "Failed to trigger forecast" \in threads[t].log
       /\ Responded(threads[t].owner) =>
            req[threads[t].owner].outcome = "ForecastNotFoundError"

C4_Witness ==
  \E r1, r2 \in Requests :
    /\ Responded(r1) /\ req[r1].outcome = "ForecastNotFoundError"
    /\ "Failed to start forecast preparation" \in req[r1].log
    /\ Responded(r2) /\ req[r2].outcome = "ForecastNotFoundError"
    /\ \E t \in ThreadsOf(r2) : threads[t].pc = "failed" /\ threads[t].messages = 1

\* C5: once the trigger has returned, the handler's raise is possible in
\* every state of the thread it started: no step of the handler waits for a
\* step of make_api_calls.
C5_ResponseDoesNotWaitForThread ==
  \A r \in Requests : req[r].pc = "reraise" => ENABLED Reraise(r)

C5_Witness ==
  \E r1, r2 \in Requests :
    /\ Responded(r1) /\ req[r1].outcome = "ForecastNotFoundError"
    /\ \E t \in ThreadsOf(r1) : threads[t].pc = "started"
    /\ Responded(r2) /\ req[r2].outcome = "ForecastNotFoundError"
    /\ \E t \in ThreadsOf(r2) : InFlight(t)

\* C6: with WEATHER_AGENT_URL not configured the trigger is a no-op: no
\* thread exists, no outbound call is made, the trigger returns normally
\* after a warning, and the miss still ends with ForecastNotFoundError.
C6_NoUrlNoOp ==
  ~Configured =>
    /\ threads = <<>>
    /\ \A r \in Requests :
         req[r].triggers > 0 =>
           /\ req[r].pc \in {"reraise", "done"}
           /\ req[r].log = {"triggering forecast preparation",
                            "WEATHER_AGENT_URL not configured"}
           /\ Responded(r) => req[r].outcome = "ForecastNotFoundError"

C6_Witness ==
  /\ ~Configured
  /\ \E r \in Requests :
       /\ Responded(r) /\ req[r].triggers = 1
       /\ req[r].outcome = "ForecastNotFoundError"

\* C9: the session id is a function of the city and of the language or
\* "default": two runs of make_api_calls for the same city and language post
\* to the same session id, a run without a language uses "default", and the
\* sessionId of the message a run submits is the id of the session it created.
LanguageOrDefault(t) ==
  IF threads[t].language \in {None, ""} THEN "default" ELSE threads[t].language

C9_SessionKeyDeterministic ==
  \A t1 \in DOMAIN threads :
    threads[t1].sessions > 0 =>
      /\ Len(threads[t1].session_sid) = Len(threads[t1].city) + 3
      /\ threads[t1].session_sid[1] = "forecast_api_"
      /\ \A i \in DOMAIN threads[t1].city :
           threads[t1].session_sid[i + 1] = threads[t1].city[i]
      /\ threads[t1].session_sid[Len(threads[t1].city) + 2] = "_"
      /\ threads[t1].session_sid[Len(threads[t1].session_sid)] = LanguageOrDefault(t1)
      /\ threads[t1].messages > 0 =>
           threads[t1].message.sessionId = threads[t1].session_sid
      /\ \A t2 \in DOMAIN threads :
           ( /\ threads[t2].sessions > 0
             /\ threads[t2].city = threads[t1].city
             /\ LanguageOrDefault(t2) = LanguageOrDefault(t1) )
           => threads[t2].session_sid = threads[t1].session_sid

C9_Witness ==
  \E t1, t2 \in DOMAIN threads :
    /\ t1 # t2
    /\ threads[t1].city = threads[t2].city
    /\ threads[t1].language = None /\ threads[t2].language = None
    /\ threads[t1].messages = 1 /\ threads[t2].messages = 1
    /\ threads[t1].message.sessionId = threads[t2].message.sessionId
    /\ threads[t1].message.sessionId = <<"forecast_api_">> \o threads[t1].city \o <<"_", "default">>

\* C10: triggers are not deduplicated: with the agent configured, every
\* trigger call whose thread start succeeded has a thread of its own, also
\* when a thread for the same city and language is still in flight, and a
\* started thread can post whatever the other threads are doing.
C10_NoDeduplication ==
  /\ \A r \in Requests :
       ( /\ Configured /\ req[r].triggers > 0
         /\ "Failed to start forecast preparation" \notin req[r].log )
       => Cardinality(ThreadsOf(r)) = 1
  /\ \A t \in DOMAIN threads :
       threads[t].pc = "started" => ENABLED PostSession(t)

C10_Witness ==
  \E t1, t2 \in DOMAIN threads :
    /\ t1 # t2
    /\ threads[t1].owner # threads[t2].owner
    /\ InFlight(t1) /\ InFlight(t2)
    /\ threads[t1].session_sid = threads[t2].session_sid

----------------------------------------------------------------------------
(* get_forecast_history requests (SpecHist) *)

\* The outcomes of the one call list_forecasts(city=city, limit=limit).
HistoryCalls(limit) ==
  {[raised |-> None, kind |-> "error",
    result |-> list_forecasts({}, 0, limit, FALSE)]}
  \cup {[raised |-> None, kind |-> "listed",
         result |-> list_forecasts(table, now, limit, TRUE)]
        : table \in SUBSET (0..MaxNow), now \in 0..MaxNow}
  \cup {[raised |-> k, kind |-> "raised",
         result |-> list_forecasts({}, 0, limit, FALSE)]
        : k \in UnexpectedKinds}

\* Lines 177-198, the whole handler: it shares nothing with other requests.
HistoryHandle(city, limit, include_expired, call) ==
  LET body == IF call.raised # None
                THEN [raised |-> call.raised, value |-> NoHistoryResponse]
                ELSE HistoryBody(city, include_expired, call.result)
      arrived == [hist EXCEPT !.pc = "done", !.city = city, !.limit = limit,
                              !.include_expired = include_expired,
                              !.store = call.kind, !.raised = call.raised,
                              !.listed = call.result.forecasts, !.reads = 1]
  IN IF body.raised = None
       THEN [arrived EXCEPT !.outcome = "success", !.response = body.value]
       ELSE [arrived EXCEPT !.outcome = HistoryExcept(body.raised)]

get_forecast_history ==
  /\ hist.pc = "idle"
  /\ \E city \in Cities, limit \in 1..MaxLimit, include_expired \in BOOLEAN :
       \E call \in HistoryCalls(limit) :
         hist' = HistoryHandle(city, limit, include_expired, call)
  /\ UNCHANGED <<WEATHER_AGENT_URL, req, threads, storevars, connvars>>

NextHist == get_forecast_history

SpecHist == Init /\ [][NextHist]_vars

\* C7: in get_latest_forecast and in get_forecast_history an exception that
\* is neither a store error nor a not-found leaves the handler with its
\* original kind, and does not invoke the trigger.
C7_UnexpectedErrorKeepsKind ==
  /\ \A r \in Requests :
       (req[r].store = "raised" /\ req[r].pc = "done") =>
         /\ req[r].outcome = req[r].raised
         /\ req[r].triggers = 0
  /\ (hist.store = "raised" /\ hist.pc = "done") => hist.outcome = hist.raised

\* C8: for a store result that is not an error the history response holds
\* the store's entries in the store's order, all of them with
\* include_expired and those not expired without it; count is their number,
\* which is at most limit.
C8_HistoryIsFilteredListing ==
  (hist.pc = "done" /\ hist.store = "listed") =>
    LET out == hist.response.forecasts
        kept == {i \in DOMAIN hist.listed :
                   hist.include_expired \/ ~hist.listed[i].expired}
    IN /\ hist.outcome = "success" /\ hist.response.status = "success"
       /\ hist.response.city = lower(hist.city)
       /\ hist.response.count = Len(out)
       /\ Len(out) = Cardinality(kept)
       /\ Len(out) <= hist.limit
       /\ \A i \in DOMAIN out :
            /\ \E j \in kept : out[i] = hist.listed[j]
            /\ hist.include_expired \/ ~out[i].expired
       /\ \A i, j \in DOMAIN out :
            i < j => out[i].forecast_at > out[j].forecast_at
       /\ hist.include_expired => out = hist.listed

C8_Witness ==
  /\ hist.pc = "done" /\ hist.store = "listed" /\ ~hist.include_expired
  /\ Len(hist.listed) = MaxLimit
  /\ hist.listed[MaxLimit].expired /\ ~hist.listed[1].expired
  /\ hist.response.count = MaxLimit - 1

----------------------------------------------------------------------------
(* Properties of the background thread (SpecLive, Spec) *)

\* C11: a started thread terminates whatever its request does, also when the
\* request never takes another step: it ends done after both posts succeeded,
\* or failed with the failure logged, and does not stay in flight.
EndedProperly(t) ==
  /\ t \in DOMAIN threads
  /\ \/ /\ threads[t].pc = "done"
        /\ threads[t].sessions = 1 /\ threads[t].messages = 1
        /\ {"Created session", "Sent forecast request"} \subseteq threads[t].log
     \/ /\ threads[t].pc = "failed"
        /\ "Failed to trigger forecast" \in threads[t].log

C11_StartedThreadTerminates ==
  \A t \in ThreadIds : (t \in DOMAIN threads) ~> EndedProperly(t)

C11_Witness ==
  \E t \in DOMAIN threads :
    /\ threads[t].pc = "failed" /\ threads[t].messages = 1
    /\ "Failed to trigger forecast" \in threads[t].log
    /\ req[threads[t].owner].pc = "reraise"

\* C13: within one run of make_api_calls the posts are ordered and not
\* repeated: at most one session post and one message post, the message
\* post only after the session post returned a success status, and no
\* message post at all when the session post failed.
C13_CallsOrderedNeverRetried ==
  \A t \in DOMAIN threads :
    /\ threads[t].sessions <= 1 /\ threads[t].messages <= 1
    /\ threads[t].messages <= threads[t].sessions
    /\ threads[t].messages = 1 <=> threads[t].session_status = "ok"
    /\ threads[t].pc = "started" <=> threads[t].sessions = 0
    /\ threads[t].pc = "session" => threads[t].messages = 0
    /\ threads[t].pc \in {"message", "done"} => threads[t].messages = 1

C13_Witness ==
  \E t1, t2 \in DOMAIN threads :
    /\ threads[t1].pc = "failed" /\ threads[t1].session_status = "failed"
    /\ threads[t1].sessions = 1 /\ threads[t1].messages = 0
    /\ threads[t2].pc = "done" /\ threads[t2].sessions = 1 /\ threads[t2].messages = 1

----------------------------------------------------------------------------
(* One get_latest_forecast request over a stored row (SpecFresh) *)

StoredRows ==
  {[forecast_at |-> at, forecast_text |-> "text", audio_data |-> "audio",
    encoding |-> "mp3", language |-> "en", locale |-> "en-US",
    sizes |-> "sizes"] : at \in 0..MaxNow}

\* Request 1 reads a stored row at time now under a time-to-live of ttl;
\* the handler then runs as in get_latest_forecast.
FreshnessRead ==
  /\ policy.pc = "idle"
  /\ \E city \in Cities, language \in Languages, row \in StoredRows,
        now \in 0..MaxNow, ttl \in 0..MaxTtl :
       LET result == get_latest(row, now, ttl, TRUE)
           call == [raised |-> None,
                    kind |-> IF result.cached THEN "fresh" ELSE "expired",
                    result |-> result]
       IN /\ policy' = [pc |-> "done", forecast_at |-> row.forecast_at,
                        now |-> now, ttl |-> ttl,
                        class |-> classify(row.forecast_at, now, ttl),
                        expired |-> Derived(row.forecast_at, now, ttl).expired]
          /\ req' = [req EXCEPT ![1] = LatestEnter(1, city, language, call)]
  /\ UNCHANGED <<WEATHER_AGENT_URL, threads, hist, connvars>>

NextFresh == FreshnessRead

SpecFresh == Init /\ [][NextFresh]_vars

\* C12: a stored record is Fresh exactly when now - forecast_at <= ttl, the
\* boundary now - forecast_at = ttl included; Fresh is the same as the
\* derived expired flag (now > forecast_at + ttl) being false; and
\* get_latest_forecast serves a record as cached only when it is Fresh.
C12_FreshIffWithinTtl ==
  policy.pc = "done" =>
    /\ policy.class \in {"Fresh", "Expired"}
    /\ policy.class = "Fresh" <=> policy.now - policy.forecast_at <= policy.ttl
    /\ policy.now - policy.forecast_at = policy.ttl => policy.class = "Fresh"
    /\ policy.class = "Fresh" <=> ~policy.expired
    /\ req[1].result.cached <=> policy.class = "Fresh"
    /\ (req[1].pc = "done" /\ req[1].outcome = "success") <=> policy.class = "Fresh"
    /\ req[1].pc = "except" <=> policy.class = "Expired"
    /\ req[1].outcome = "success" =>
         /\ req[1].response.forecast_at = policy.forecast_at
         /\ req[1].response.age_seconds = policy.now - policy.forecast_at
         /\ req[1].response.age_seconds <= policy.ttl
         /\ req[1].response.expires_at = policy.forecast_at + policy.ttl
         /\ req[1].response.expires_at >= policy.now

C12_Witness ==
  /\ policy.pc = "done" /\ policy.ttl > 0
  /\ policy.now - policy.forecast_at = policy.ttl
  /\ policy.class = "Fresh" /\ ~policy.expired
  /\ req[1].outcome = "success" /\ req[1].response.age_seconds = policy.ttl

----------------------------------------------------------------------------
(* One request to each route (SpecReads) *)

NextReads ==
  \/ get_latest_forecast(1)
  \/ CallTrigger(1)
  \/ Reraise(1)
  \/ \E t \in DOMAIN threads : PostSession(t)
  \/ \E t \in DOMAIN threads : SessionReturns(t)
  \/ \E t \in DOMAIN threads : MessageReturns(t)
  \/ get_forecast_history

SpecReads == Init /\ [][NextReads]_vars

\* C14: each request reads the store exactly once: get_latest_forecast calls
\* get_cached_forecast once and get_forecast_history calls list_forecasts
\* once, and neither reads again after a store error, a miss or an
\* unexpected error.
C14_StoreReadOncePerRequest ==
  /\ \A r \in Requests :
       req[r].reads = (IF req[r].pc = "idle" THEN 0 ELSE 1)
  /\ hist.reads = (IF hist.pc = "idle" THEN 0 ELSE 1)

C14_Witness ==
  /\ req[1].pc = "done" /\ req[1].store = "error" /\ req[1].reads = 1
  /\ hist.pc = "done" /\ hist.store = "raised" /\ hist.reads = 1

----------------------------------------------------------------------------
(* core.connection *)

\* Lines 14-17: the instance connection name, or None.
INSTANCE_CONNECTION_NAME(st) ==
  IF st.project /\ st.location /\ st.instance
    THEN "project:location:instance"
    ELSE None

\* Connector()
NewConnector == [closes |-> 0]

\* get_connector run without interruption: the global afterwards, the
\* Connector objects afterwards and the returned object.
get_connector(c, insts) ==
  IF c = 0
    THEN [connector |-> Len(insts) + 1, instances |-> Append(insts, NewConnector),
          value |-> Len(insts) + 1]
    ELSE [connector |-> c, instances |-> insts, value |-> c]

\* close_connector: the global and the Connector objects afterwards.
CloseConnectorKeepsGlobal(c, insts) ==
  IF c # 0
    THEN [connector |-> c,
          instances |-> [insts EXCEPT ![c] = [closes |-> insts[c].closes + 1]]]
    ELSE [connector |-> c, instances |-> insts]

close_connector(c, insts) ==
  IF c # 0
    THEN [connector |-> 0,
          instances |-> [insts EXCEPT ![c] = [closes |-> insts[c].closes + 1]]]
    ELSE [connector |-> c, instances |-> insts]

\* get_connection: the state it leaves, what it raises, the connection it
\* returns (0 when it raises) and the connect attempts it made.
GetConnectionConnectorFirst(st, c, insts, cs, connect_ok) ==
  LET g == get_connector(c, insts)
  IN IF INSTANCE_CONNECTION_NAME(st) = None \/ ~st.password
       THEN [connector |-> g.connector, instances |-> g.instances, conns |-> cs,
             raised |-> "ValueError", value |-> 0, connects |-> 0]
     ELSE IF connect_ok
       THEN [connector |-> g.connector, instances |-> g.instances,
             conns |-> Append(cs, [via |-> g.value, state |-> "open"]),
             raised |-> None, value |-> Len(cs) + 1, connects |-> 1]
     ELSE [connector |-> g.connector, instances |-> g.instances, conns |-> cs,
           raised |-> "Exception", value |-> 0, connects |-> 1]

get_connection(st, c, insts, cs, connect_ok) ==
  IF INSTANCE_CONNECTION_NAME(st) = None
    THEN [connector |-> c, instances |-> insts, conns |-> cs,
          raised |-> "ValueError", value |-> 0, connects |-> 0]
  ELSE IF ~st.password
    THEN [connector |-> c, instances |-> insts, conns |-> cs,
          raised |-> "ValueError", value |-> 0, connects |-> 0]
  ELSE LET g == get_connector(c, insts)
       IN IF connect_ok
            THEN [connector |-> g.connector, instances |-> g.instances,
                  conns |-> Append(cs, [via |-> g.value, state |-> "open"]),
                  raised |-> None, value |-> Len(cs) + 1, connects |-> 1]
            ELSE [connector |-> g.connector, instances |-> g.instances,
                  conns |-> cs, raised |-> "Exception", value |-> 0,
                  connects |-> 1]

\* The statements of test_connection's try block that can raise once the
\* connection is obtained, in program order; "none" when none does.
FailurePoints ==
  {"none", "cursor", "execute_version", "fetch_version", "execute_exists",
   "fetch_exists", "cursor_close", "conn_close"}

\* test_connection: the state it leaves, what it raises, the dict it returns,
\* the connection it obtained (0 when it obtained none) and the step that
\* raised inside its try block ("none" when none did).
TestConnectionCloseOutsideTry(st, c, insts, cs, connect_ok, fail_at) ==
  LET g == get_connection(st, c, insts, cs, connect_ok)
      name == INSTANCE_CONNECTION_NAME(st)
      error == [status |-> "error", connected |-> FALSE,
                instance |-> IF name = None THEN "Not configured" ELSE name]
      state == [connector |-> g.connector, instances |-> g.instances,
                conns |-> g.conns, raised |-> None, value |-> error,
                conn |-> g.value, connects |-> g.connects,
                failed |-> IF g.raised = "ValueError" THEN "configuration"
                           ELSE IF g.raised = "Exception" THEN "connect"
                           ELSE fail_at]
  IN IF g.raised # None THEN state
     ELSE IF fail_at = "none"
       THEN [state EXCEPT !.conns = [g.conns EXCEPT ![g.value].state = "closed"],
                          !.value = [status |-> "success", connected |-> TRUE,
                                     instance |-> name]]
     ELSE IF fail_at = "conn_close"
       THEN [state EXCEPT !.conns = [g.conns EXCEPT ![g.value].state = "close_failed"],
                          !.raised = "Exception"]
     ELSE state

test_connection(st, c, insts, cs, connect_ok, fail_at) ==
  LET g == get_connection(st, c, insts, cs, connect_ok)
      name == INSTANCE_CONNECTION_NAME(st)
      error == [status |-> "error", connected |-> FALSE,
                instance |-> IF name = None THEN "Not configured" ELSE name]
      state == [connector |-> g.connector, instances |-> g.instances,
                conns |-> g.conns, raised |-> None, value |-> error,
                conn |-> g.value, connects |-> g.connects,
                failed |-> IF g.raised = "ValueError" THEN "configuration"
                           ELSE IF g.raised = "Exception" THEN "connect"
                           ELSE fail_at]
  IN IF g.raised # None THEN state
     ELSE IF fail_at = "none"
       THEN [state EXCEPT !.conns = [g.conns EXCEPT ![g.value].state = "closed"],
                          !.value = [status |-> "success", connected |-> TRUE,
                                     instance |-> name]]
     ELSE IF fail_at = "conn_close"
       THEN [state EXCEPT !.conns = [g.conns EXCEPT ![g.value].state = "close_failed"]]
     ELSE state

----------------------------------------------------------------------------
(* Calls into core.connection, one after the other (SpecConn) *)

SettingsChoices ==
  [project : BOOLEAN, location : BOOLEAN, instance : BOOLEAN, password : BOOLEAN]

InitConn ==
  /\ WEATHER_AGENT_URL = None
  /\ req = [r \in Requests |-> IdleRequest]
  /\ threads = <<>>
  /\ hist = IdleHistory
  /\ policy = IdlePolicy
  /\ settings \in SettingsChoices
  /\ connector = 0
  /\ instances = <<>>
  /\ conns = <<>>
  /\ last = NoCall
  /\ callers = [c \in Callers |-> IdleCaller]

CallGetConnector ==
  /\ connector = 0 => Len(instances) < MaxInst
  /\ LET g == get_connector(connector, instances)
     IN /\ connector' = g.connector
        /\ instances' = g.instances
        /\ last' = [NoCall EXCEPT !.op = "get_connector", !.value = g.value]
  /\ UNCHANGED <<WEATHER_AGENT_URL, req, threads, hist, storevars,
                 settings, conns, callers>>

CallCloseConnector ==
  /\ LET g == close_connector(connector, instances)
     IN /\ connector' = g.connector
        /\ instances' = g.instances
        /\ last' = [NoCall EXCEPT !.op = "close_connector"]
  /\ UNCHANGED <<WEATHER_AGENT_URL, req, threads, hist, storevars,
                 settings, conns, callers>>

CallGetConnection ==
  /\ connector = 0 => Len(instances) < MaxInst
  /\ Len(conns) < MaxConns
  /\ \E connect_ok \in BOOLEAN :
       LET g == get_connection(settings, connector, instances, conns, connect_ok)
       IN /\ connector' = g.connector
          /\ instances' = g.instances
          /\ conns' = g.conns
          /\ last' = [NoCall EXCEPT !.op = "get_connection",
                                    !.raised = g.raised, !.value = g.value,
                                    !.conn = g.value, !.connects = g.connects]
  /\ UNCHANGED <<WEATHER_AGENT_URL, req, threads, hist, storevars,
                 settings, callers>>

CallTestConnection ==
  /\ connector = 0 => Len(instances) < MaxInst
  /\ Len(conns) < MaxConns
  /\ \E connect_ok \in BOOLEAN, fail_at \in FailurePoints :
       LET g == test_connection(settings, connector, instances, conns,
                                connect_ok, fail_at)
       IN /\ connector' = g.connector
          /\ instances' = g.instances
          /\ conns' = g.conns
          /\ last' = [NoCall EXCEPT !.op = "test_connection",
                                    !.raised = g.raised,
                                    !.status = g.value.status,
                                    !.connected = g.value.connected,
                                    !.instance = g.value.instance,
                                    !.conn = g.conn, !.connects = g.connects,
                                    !.failed = g.failed]
  /\ UNCHANGED <<WEATHER_AGENT_URL, req, threads, hist, storevars,
                 settings, callers>>

NextConn ==
  \/ CallGetConnector
  \/ CallCloseConnector
  \/ CallGetConnection
  \/ CallTestConnection

SpecConn == InitConn /\ [][NextConn]_vars

ConfigOk == INSTANCE_CONNECTION_NAME(settings) # None /\ settings.password

\* C15: in a sequence of calls, get_connector creates a Connector exactly
\* when none is held and otherwise hands back the held one unchanged;
\* close_connector closes the held Connector once and forgets it, and does
\* nothing when none is held; so the object get_connector returns is never
\* a closed one, no Connector is closed twice, and a get_connector after a
\* close_connector returns a new Connector.
C15_GetStep ==
  last'.op = "get_connector" =>
    /\ IF connector = 0
         THEN /\ instances' = Append(instances, NewConnector)
              /\ connector' = Len(instances) + 1
         ELSE UNCHANGED <<connector, instances>>
    /\ last'.value = connector'

C15_CloseStep ==
  last'.op = "close_connector" =>
    /\ connector' = 0
    /\ IF connector # 0
         THEN instances' = [instances EXCEPT ![connector] = [closes |-> 1]]
         ELSE instances' = instances

C15_Held ==
  /\ connector \in 0..Len(instances)
  /\ connector # 0 => instances[connector].closes = 0
  /\ \A i \in DOMAIN instances :
       /\ instances[i].closes <= 1
       /\ i # connector => instances[i].closes = 1

C15_SequentialSingleton ==
  [][C15_GetStep /\ C15_CloseStep]_vars /\ []C15_Held

C15_Witness ==
  /\ last.op = "get_connector"
  /\ last.value = 2
  /\ connector = 2
  /\ Len(instances) = 2
  /\ instances[1].closes = 1
  /\ instances[2].closes = 0

\* C17: get_connection raises ValueError, leaving the connector and the
\* connections untouched and attempting no connect, when the instance
\* connection name or the password is missing; with both set it attempts
\* one connect through the held (or a new) Connector, returns the open
\* connection when the connect succeeds and raises Exception, returning no
\* connection, when the connect fails.
C17_Step ==
  last'.op = "get_connection" =>
    IF ~ConfigOk
      THEN /\ last'.raised = "ValueError"
           /\ last'.connects = 0
           /\ last'.value = 0
           /\ UNCHANGED <<connector, instances, conns>>
      ELSE /\ last'.connects = 1
           /\ connector' # 0
           /\ connector # 0 => UNCHANGED <<connector, instances>>
           /\ \/ /\ last'.raised = None
                 /\ last'.value = Len(conns) + 1
                 /\ conns' = Append(conns, [via |-> connector', state |-> "open"])
              \/ /\ last'.raised = "Exception"
                 /\ last'.value = 0
                 /\ conns' = conns

C17_ValidatesBeforeConnector == [][C17_Step]_vars

C17_Witness ==
  /\ last.op = "get_connection"
  /\ last.raised = "ValueError"
  /\ settings.project /\ settings.location /\ settings.instance
  /\ ~settings.password
  /\ connector = 0
  /\ instances = <<>>

\* C18: test_connection never raises; it returns status "success" with
\* connected true exactly when no step failed (the configuration is
\* complete, the connection was obtained, both queries and both closes went
\* through), and status "error" with connected false when any step failed.
C18_TestConnectionNeverRaises ==
  last.op = "test_connection" =>
    /\ last.raised = None
    /\ last.status \in {"success", "error"}
    /\ last.connected = (last.status = "success")
    /\ last.status = "success" <=> last.failed = "none"
    /\ last.status = "success" => ConfigOk /\ last.conn # 0
    /\ ~ConfigOk => last.failed = "configuration"

C18_Witness ==
  /\ last.op = "test_connection"
  /\ last.status = "error"
  /\ last.connected = FALSE
  /\ last.failed = "conn_close"
  /\ last.conn # 0

\* C19: when test_connection has returned, the connection it obtained is
\* closed.
C19_TestConnectionClosesItsConnection ==
  (last.op = "test_connection" /\ last.conn # 0) =>
    conns[last.conn].state = "closed"

----------------------------------------------------------------------------
(* get_connector called from several threads at once (SpecRace): the
   function holds no lock, so every statement is a step of its own. *)

\* Line 31: if _connector is None
RaceCheck(c) ==
  /\ callers[c].pc = "idle"
  /\ callers' = [callers EXCEPT ![c].pc =
                   IF connector = 0 THEN "create" ELSE "return"]
  /\ UNCHANGED <<WEATHER_AGENT_URL, req, threads, hist, storevars,
                 settings, connector, instances, conns, last>>

\* Line 32: _connector = Connector()
RaceCreate(c) ==
  /\ callers[c].pc = "create"
  /\ instances' = Append(instances, NewConnector)
  /\ connector' = Len(instances) + 1
  /\ callers' = [callers EXCEPT ![c].pc = "return"]
  /\ UNCHANGED <<WEATHER_AGENT_URL, req, threads, hist, storevars,
                 settings, conns, last>>

\* Line 33: return _connector
RaceReturn(c) ==
  /\ callers[c].pc = "return"
  /\ callers' = [callers EXCEPT ![c] = [pc |-> "done", got |-> connector]]
  /\ UNCHANGED <<WEATHER_AGENT_URL, req, threads, hist, storevars,
                 settings, connector, instances, conns, last>>

NextRace ==
  \E c \in Callers :
    \/ RaceCheck(c)
    \/ RaceCreate(c)
    \/ RaceReturn(c)

SpecRace == Init /\ [][NextRace]_vars

\* C16: however the callers' steps interleave, at most one Connector is
\* ever created and every caller that has returned got that same Connector.
C16_OneConnectorUnderConcurrency ==
  /\ Len(instances) <= 1
  /\ \A c \in Callers : callers[c].pc = "done" => callers[c].got = 1

====
